---- MODULE Spec2Model ----
(***************************************************************************)
(* FlagHive backend: the challenge Solve workflow and the flag-attempt     *)
(* ledger.  The relational store (Challenge, TeamMember, Event and         *)
(* FlagAttempt tables) is the shared state; every request is a process     *)
(* that takes one step per awaited persistence call, so that requests      *)
(* interleave exactly where the handlers suspend.                          *)
(***************************************************************************)
EXTENDS Integers, Sequences, FiniteSets, TLC

\* ------------------------------------------------------------------ bounds
NReq == 2
MaxTime == 2

Reqs == 1..NReq

\* --------------------------------------------------------------- nullable
Null == <<>>
Some(x) == <<x>>
IsNull(o) == o = <<>>
Val(o) == o[1]

\* ----------------------------------------------------------- input domains
UserIds == {"u1", "u2"}
ChallengeIds == {"c1", "c2"}
MissingChallenge == "c0"
EventIds == {"e1", "e2"}
MissingEvent == "e0"
Flags == {"f1", "f2"}
Comments == {"k1", "k2"}
AttemptIds == 1..NReq

\* messages of the thrown errors / codes of the returned envelopes
EvtNotFound == "Evenement non trouve"
ChNotFound == "Challenge non trouve"
ChNotInEvent == "Challenge non trouve dans cet evenement"
SolveForbidden == "Non autorise a resoudre ce challenge"
AlreadySolved == "Challenge deja resolu"
SubmitForbidden == "Non autorise a soumettre un flag pour ce challenge"
ListForbidden == "Non autorise a voir les tentatives pour ce challenge"
AttNotFound == "Tentative de flag non trouvee"
GetForbidden == "Non autorise a voir cette tentative"
AnnForbidden == "Non autorise a modifier cette tentative"
PrismaError == "PrismaClientKnownRequestError"

VARIABLES
    revision,    \* which revision of flagAttemptService is built: "throwing" | "envelope"
    event,       \* Event table: set of ids
    teamMember,  \* TeamMember table: sequence of rows (userId, teamId, role)
    team,        \* Team table: sequence of rows (id, name, inviteCode, ownerId)
    eventTeam,   \* EventTeam table: set of <<eventId, teamId>>
    assignment,  \* ChallengeAssignment table: sequence of rows (challengeId, userId)
    note,        \* Note table: id -> row
    challenge,   \* Challenge table: id -> row
    flagAttempt, \* FlagAttempt table (the ledger): sequence of rows, id = position
    now,         \* the clock read by new Date() / CURRENT_TIMESTAMP
    req          \* the requests in flight: their inputs, position, locals, outcome

vars == <<revision, event, teamMember, team, eventTeam, assignment, note,
          challenge, flagAttempt, now, req>>
db == <<revision, event, teamMember, team, eventTeam, assignment, note>>

NoOutcome == [kind |-> "pending", msg |-> "", code |-> "", solved |-> FALSE, points |-> Null]
Throw(m) == [kind |-> "throw", msg |-> m, code |-> "", solved |-> FALSE, points |-> Null]
Envelope(m, c) == [kind |-> "return", msg |-> m, code |-> c, solved |-> FALSE, points |-> Null]
Returned == [kind |-> "return", msg |-> "", code |-> "", solved |-> FALSE, points |-> Null]

IdleReq ==
    [pc |-> "idle", op |-> "none", via |-> "service", user |-> "u1", cid |-> "c1",
     eid |-> "e1", flag |-> "f1", succ |-> FALSE, aid |-> 1, comment |-> Null,
     ch |-> Null, isSuccess |-> FALSE, startedAt |-> 1, solvedAtStart |-> FALSE,
     cch |-> Null, rows |-> {}, upd |-> 0, fault |-> FALSE, cfa |-> NoOutcome,
     outcome |-> NoOutcome, status |-> Null, data |-> Null,
     name |-> "n1", code |-> "i1", tid |-> "t1", nid |-> "m1", content |-> "x1",
     found |-> Null, wasThere |-> FALSE, target |-> "u1", token |-> "good"]

\* one team t1 owned by u1, with an admin u3 and a plain member u4, entered in
\* both events; one challenge of t1 in each event; two notes on c1
Tables ==
    /\ revision \in {"throwing", "envelope"}
    /\ event = EventIds
    /\ team = <<[id |-> "t1", name |-> "n1", inviteCode |-> "i1", ownerId |-> "u1"]>>
    /\ teamMember = <<[userId |-> "u1", teamId |-> "t1", role |-> "OWNER"],
                      [userId |-> "u3", teamId |-> "t1", role |-> "ADMIN"],
                      [userId |-> "u4", teamId |-> "t1", role |-> "MEMBER"]>>
    /\ eventTeam = {<<"e1", "t1">>, <<"e2", "t1">>}
    /\ assignment = <<>>
    /\ note = [n \in {"m1", "m2"} |->
                 [userId |-> IF n = "m1" THEN "u4" ELSE "u3", challengeId |-> "c1",
                  content |-> "x0", updatedAt |-> 0]]
    /\ now = 1
    /\ req = [r \in Reqs |-> IdleReq]

\* the Challenge table: c1 of event e1 with a stored flag and p points, c2 of
\* event e2 created without flag or points
ChallengeRows(p) ==
    [c \in ChallengeIds |->
       IF c = "c1"
       THEN [name |-> "n1", eventId |-> "e1", teamId |-> "t1", flag |-> Some("f1"),
             points |-> p, solved |-> FALSE, solvedAt |-> Null]
       ELSE [name |-> "n1", eventId |-> "e2", teamId |-> "t1", flag |-> Null,
             points |-> Null, solved |-> FALSE, solvedAt |-> Null]]

Init ==
    /\ Tables
    /\ challenge = ChallengeRows(Some(100))
    /\ flagAttempt = <<>>

\* ------------------------------------------------------- store primitives
\* prisma.challenge.findUnique({ where: { id } })
FindChallenge(c) == IF c \in DOMAIN challenge THEN Some(challenge[c]) ELSE Null

\* the membership lookup is keyed by the user alone
IsTeamMember_AnyUser(u, t) == \E i \in DOMAIN teamMember : teamMember[i].teamId = t

\* prisma.teamMember.findUnique({ where: { userId_teamId } }) is non-null
IsTeamMember(u, t) ==
    \E i \in DOMAIN teamMember : teamMember[i].userId = u /\ teamMember[i].teamId = t

\* prisma.event.findUnique({ where: { id } }) is non-null
EventExists(e) == e \in event

\* prisma.flagAttempt.findUnique({ where: { id } })
FindAttempt(a) == IF a \in DOMAIN flagAttempt THEN Some(flagAttempt[a]) ELSE Null

\* if (challenge.eventId !== eventId) throw: the cross-event guard
InEvent(ch, e) == ch.eventId = e

\* a solved challenge "solves" again: the already-solved test is missing
IsSolved_Never(ch) == FALSE

\* if (challenge.solved) throw, on the row as it was read
IsSolved(ch) == ch.solved

\* the legacy test: a challenge without a stored flag accepts any submission
FlagMatches_Legacy(stored, submitted) == IsNull(stored) \/ stored = Some(submitted)

\* const isSuccess = challenge.flag === flag
FlagMatches(stored, submitted) == stored = Some(submitted)

\* isSuccess is left to the column default
NewFlagAttempt_DefaultFailure(f, s, cm, u, c, t) ==
    [flagValue |-> f, isSuccess |-> FALSE, comment |-> cm, userId |-> u,
     challengeId |-> c, createdAt |-> t]

\* the row is attributed to a fixed user instead of the submitter
NewFlagAttempt_WrongUser(f, s, cm, u, c, t) ==
    [flagValue |-> f, isSuccess |-> s, comment |-> cm, userId |-> "u2",
     challengeId |-> c, createdAt |-> t]

\* data: { flagValue, isSuccess, comment, userId, challengeId }, createdAt default now
NewFlagAttempt(f, s, cm, u, c, t) ==
    [flagValue |-> f, isSuccess |-> s, comment |-> cm, userId |-> u,
     challengeId |-> c, createdAt |-> t]

\* solvedAt is left out of the update's data
SolvedUpdate_NoTimestamp(row, t) == [row EXCEPT !.solved = TRUE]

\* solved is left out of the update's data
SolvedUpdate_TimestampOnly(row, t) == [row EXCEPT !.solvedAt = Some(t)]

\* data: { solved: true, solvedAt: new Date() }
SolvedUpdate(row, t) == [row EXCEPT !.solved = TRUE, !.solvedAt = Some(t)]

\* a comment already on the row is kept and the new one dropped
CommentUpdate_KeepsPrior(row, cm) ==
    IF IsNull(row.comment) THEN [row EXCEPT !.comment = Some(cm)] ELSE row

\* the update's data also rewrites the recorded verdict
CommentUpdate_RewritesVerdict(row, cm) == [row EXCEPT !.comment = Some(cm), !.isSuccess = TRUE]

\* data: { comment }
CommentUpdate(row, cm) == [row EXCEPT !.comment = Some(cm)]

Tick ==
    /\ now < MaxTime
    /\ now' = now + 1
    /\ UNCHANGED <<db, challenge, flagAttempt, req>>

\* --------------------------------------------------- request validation
\* the object validate() hands to schema.parseAsync: { params, body, query }
SolveRequest(e, c, f) ==
    [params |-> [eventId |-> e, challengeId |-> c], body |-> [flag |-> f]]
CommentRequest(e, c, a, cm) ==
    [params |-> [eventId |-> e, challengeId |-> c, flagAttemptId |-> a],
     body |-> [comment |-> cm]]

\* solveChallengeSchema: params.id is a required uuid, body.flag a non-empty string
solveChallengeSchema(input) ==
    /\ "id" \in DOMAIN input.params
    /\ "flag" \in DOMAIN input.body
    /\ input.body.flag # ""

\* addCommentSchema: a required non-empty top-level comment
addCommentSchema(input) ==
    /\ "comment" \in DOMAIN input
    /\ input["comment"] # ""

\* validate(schema): 400 on a ZodError, next() otherwise
Validates(q) ==
    IF q.op = "Solve" THEN solveChallengeSchema(SolveRequest(q.eid, q.cid, q.flag))
    ELSE IF q.op = "Annotate"
    THEN addCommentSchema(CommentRequest(q.eid, q.cid, q.aid, Val(q.comment)))
    ELSE TRUE

\* --------------------------------------------------- HTTP status mapping
\* POST /:challengeId/solve, the handler's result test and its catch block
SolveHandlerStatus(o) ==
    IF o.kind = "return" THEN (IF o.solved THEN 200 ELSE 400)
    ELSE IF o.msg \in {ChNotFound, EvtNotFound} THEN 404
    ELSE IF o.msg = AlreadySolved THEN 400
    ELSE IF o.msg = SolveForbidden THEN 403
    ELSE 500

\* flagAttempts routes, first revision: catch blocks matching on the message
AttemptHandlerStatus(o, notFound, forbidden) ==
    IF o.kind = "return" THEN 200
    ELSE IF o.msg = notFound THEN 404
    ELSE IF o.msg = forbidden THEN 403
    ELSE 500

\* flagAttempts routes, second revision: status from result.error.code
EnvelopeStatus(o) ==
    IF o.code = "" THEN 200
    ELSE IF o.code = "NOT_FOUND" THEN 404
    ELSE IF o.code = "UNAUTHORIZED" THEN 403
    ELSE 500

\* what a flagAttemptService function hands its caller for a failed precondition
ServiceError(m, c) == IF revision = "throwing" THEN Throw(m) ELSE Envelope(m, c)

StatusOf(q, o, notFound, forbidden) ==
    IF q.via # "http" THEN Null
    ELSE IF q.op = "Solve" THEN Some(SolveHandlerStatus(o))
    ELSE IF revision = "throwing" THEN Some(AttemptHandlerStatus(o, notFound, forbidden))
    ELSE Some(EnvelopeStatus(o))

Done(q, o, notFound, forbidden) ==
    [q EXCEPT !.pc = "done", !.outcome = o, !.status = StatusOf(q, o, notFound, forbidden)]

\* requests are admitted in slot order
CanStart(r) ==
    /\ req[r].pc = "idle"
    /\ \A p \in Reqs : p < r => req[p].pc # "idle"

Begin(r, o, v, u, c, e, f, s, a, cm, first) ==
    [req[r] EXCEPT !.op = o, !.via = v, !.user = u, !.cid = c, !.eid = e, !.flag = f,
                   !.succ = s, !.aid = a, !.comment = cm, !.startedAt = now,
                   !.solvedAtStart = (c \in DOMAIN challenge /\ challenge[c].solved),
                   !.pc = IF v = "http" /\ o \in {"Solve", "Annotate"}
                          THEN "validate" ELSE first]

\* validate(schema) middleware in front of the solve and comment handlers
Validate(r) ==
    /\ req[r].pc = "validate"
    /\ req' = [req EXCEPT ![r] =
         IF Validates(req[r])
         THEN [req[r] EXCEPT !.pc = IF req[r].op = "Solve" THEN "s_event" ELSE "a_find"]
         ELSE [req[r] EXCEPT !.pc = "done", !.status = Some(400)]]
    /\ UNCHANGED <<db, challenge, flagAttempt, now>>

\* ------------------------------------------------ solveChallenge (event-scoped)
StartSolveIn(r, vias, challenges, events) ==
    /\ CanStart(r)
    /\ \E v \in vias, u \in UserIds, c \in challenges, e \in events, f \in Flags :
          req' = [req EXCEPT ![r] =
                    Begin(r, "Solve", v, u, c, e, f, FALSE, 1, Null, "s_event")]
    /\ UNCHANGED <<db, challenge, flagAttempt, now>>

StartSolve(r) ==
    StartSolveIn(r, {"http", "service"}, ChallengeIds \cup {MissingChallenge},
                 EventIds \cup {MissingEvent})

\* await prisma.event.findUnique
SolveFindEvent(r) ==
    /\ req[r].pc = "s_event"
    /\ req' = [req EXCEPT ![r] =
         IF ~EventExists(req[r].eid)
         THEN Done(req[r], Throw(EvtNotFound), "", "")
         ELSE [req[r] EXCEPT !.pc = "s_challenge"]]
    /\ UNCHANGED <<db, challenge, flagAttempt, now>>

\* await prisma.challenge.findUnique, then the cross-event guard
SolveFindChallenge(r) ==
    /\ req[r].pc = "s_challenge"
    /\ LET found == FindChallenge(req[r].cid) IN
       req' = [req EXCEPT ![r] =
         IF IsNull(found) THEN Done(req[r], Throw(ChNotFound), "", "")
         ELSE IF ~InEvent(Val(found), req[r].eid)
         THEN Done(req[r], Throw(ChNotInEvent), "", "")
         ELSE [req[r] EXCEPT !.pc = "s_member", !.ch = found]]
    /\ UNCHANGED <<db, challenge, flagAttempt, now>>

\* the already-solved test placed ahead of the membership test
SolveFindMember_SolvedFirst(r) ==
    /\ req[r].pc = "s_member"
    /\ LET c == Val(req[r].ch) IN
       req' = [req EXCEPT ![r] =
         IF IsSolved(c) THEN Done(req[r], Throw(AlreadySolved), "", "")
         ELSE IF ~IsTeamMember(req[r].user, c.teamId)
         THEN Done(req[r], Throw(SolveForbidden), "", "")
         ELSE [req[r] EXCEPT !.pc = "cfa_challenge",
                             !.isSuccess = FlagMatches(c.flag, req[r].flag)]]
    /\ UNCHANGED <<db, challenge, flagAttempt, now>>

\* await prisma.teamMember.findUnique, the already-solved test on the row read
\* earlier, and the flag comparison
SolveFindMember(r) ==
    /\ req[r].pc = "s_member"
    /\ LET c == Val(req[r].ch) IN
       req' = [req EXCEPT ![r] =
         IF ~IsTeamMember(req[r].user, c.teamId)
         THEN Done(req[r], Throw(SolveForbidden), "", "")
         ELSE IF IsSolved(c) THEN Done(req[r], Throw(AlreadySolved), "", "")
         ELSE [req[r] EXCEPT !.pc = "cfa_challenge",
                             !.isSuccess = FlagMatches(c.flag, req[r].flag)]]
    /\ UNCHANGED <<db, challenge, flagAttempt, now>>

\* ------------------------------------------------------ createFlagAttempt
\* the arguments createFlagAttempt was called with
CfaArgs(q) ==
    IF q.op = "Solve"
    THEN [flagValue |-> q.flag, isSuccess |-> q.isSuccess,
          comment |-> Some(IF q.isSuccess THEN "Tentative reussie" ELSE "Tentative echouee")]
    ELSE [flagValue |-> q.flag, isSuccess |-> q.succ, comment |-> q.comment]

\* the caller's continuation once createFlagAttempt has settled with result o
AfterCfa(q, o) ==
    IF q.op # "Solve" THEN Done([q EXCEPT !.cfa = o], o, "", "")
    ELSE IF o.kind = "throw" THEN Done([q EXCEPT !.cfa = o], o, "", "")
    ELSE IF ~q.isSuccess
    THEN Done([q EXCEPT !.cfa = o], Returned, "", "")
    ELSE [q EXCEPT !.cfa = o, !.pc = "s_update"]

StartRecord(r) ==
    /\ CanStart(r)
    /\ \E u \in UserIds, c \in ChallengeIds \cup {MissingChallenge}, f \in Flags,
          s \in BOOLEAN, cm \in {Null, Some("k1")} :
          req' = [req EXCEPT ![r] =
                    Begin(r, "Record", "service", u, c, "e1", f, s, 1, cm, "cfa_challenge")]
    /\ UNCHANGED <<db, challenge, flagAttempt, now>>

\* await prisma.challenge.findUnique
CfaFindChallenge(r) ==
    /\ req[r].pc = "cfa_challenge"
    /\ LET found == FindChallenge(req[r].cid) IN
       req' = [req EXCEPT ![r] =
         IF IsNull(found) THEN AfterCfa(req[r], ServiceError(ChNotFound, "NOT_FOUND"))
         ELSE [req[r] EXCEPT !.pc = "cfa_member", !.cch = found]]
    /\ UNCHANGED <<db, challenge, flagAttempt, now>>

\* await prisma.teamMember.findUnique
CfaFindMember(r) ==
    /\ req[r].pc = "cfa_member"
    /\ req' = [req EXCEPT ![r] =
         IF ~IsTeamMember(req[r].user, Val(req[r].cch).teamId)
         THEN AfterCfa(req[r], ServiceError(SubmitForbidden, "UNAUTHORIZED"))
         ELSE [req[r] EXCEPT !.pc = "cfa_insert"]]
    /\ UNCHANGED <<db, challenge, flagAttempt, now>>

\* await prisma.flagAttempt.create
CfaInsert(r) ==
    /\ req[r].pc = "cfa_insert"
    /\ LET a == CfaArgs(req[r])
           id == Len(flagAttempt) + 1 IN
       /\ flagAttempt' = Append(flagAttempt,
            NewFlagAttempt(a.flagValue, a.isSuccess, a.comment, req[r].user, req[r].cid, now))
       /\ req' = [req EXCEPT ![r] =
            AfterCfa([req[r] EXCEPT !.rows = @ \cup {id}],
                     IF revision = "throwing" THEN Returned ELSE Envelope("", ""))]
    /\ UNCHANGED <<db, challenge, now>>

\* prisma.flagAttempt.create rejects: the store is unreachable or refuses the write
CfaInsertFail(r) ==
    /\ req[r].pc = "cfa_insert"
    /\ req' = [req EXCEPT ![r] =
         AfterCfa([req[r] EXCEPT !.fault = TRUE], ServiceError(PrismaError, "SERVER_ERROR"))]
    /\ UNCHANGED <<db, challenge, flagAttempt, now>>

\* the points are granted only if the row read before the update was solved
ResultPoints_Stale(ch) == IF ch.solved /\ ~IsNull(ch.points) THEN Val(ch.points) ELSE 0

\* points: challenge.points || 0
ResultPoints(ch) == IF IsNull(ch.points) \/ Val(ch.points) = 0 THEN 0 ELSE Val(ch.points)

\* await prisma.challenge.update({ solved: true, solvedAt: new Date() })
SolveUpdate(r) ==
    /\ req[r].pc = "s_update"
    /\ challenge' = [challenge EXCEPT ![req[r].cid] = SolvedUpdate(@, now)]
    /\ req' = [req EXCEPT ![r] =
         Done([req[r] EXCEPT !.upd = @ + 1],
              [Returned EXCEPT !.solved = TRUE,
                 !.points = Some(ResultPoints(Val(req[r].ch)))], "", "")]
    /\ UNCHANGED <<db, flagAttempt, now>>

\* prisma.challenge.update rejects
SolveUpdateFail(r) ==
    /\ req[r].pc = "s_update"
    /\ req' = [req EXCEPT ![r] = Done([req[r] EXCEPT !.fault = TRUE], Throw(PrismaError), "", "")]
    /\ UNCHANGED <<db, challenge, flagAttempt, now>>

\* ------------------------------------------------ getFlagAttemptsByChallenge
StartList(r) ==
    /\ CanStart(r)
    /\ \E v \in {"http", "service"}, u \in UserIds,
          c \in ChallengeIds \cup {MissingChallenge} :
          req' = [req EXCEPT ![r] =
                    Begin(r, "List", v, u, c, "e1", "f1", FALSE, 1, Null, "l_challenge")]
    /\ UNCHANGED <<db, challenge, flagAttempt, now>>

\* await prisma.challenge.findUnique
ListFindChallenge(r) ==
    /\ req[r].pc = "l_challenge"
    /\ LET found == FindChallenge(req[r].cid) IN
       req' = [req EXCEPT ![r] =
         IF IsNull(found)
         THEN Done(req[r], ServiceError(ChNotFound, "NOT_FOUND"), ChNotFound, ListForbidden)
         ELSE [req[r] EXCEPT !.pc = "l_member", !.cch = found]]
    /\ UNCHANGED <<db, challenge, flagAttempt, now>>

\* await prisma.teamMember.findUnique
ListFindMember(r) ==
    /\ req[r].pc = "l_member"
    /\ req' = [req EXCEPT ![r] =
         IF ~IsTeamMember(req[r].user, Val(req[r].cch).teamId)
         THEN Done(req[r], ServiceError(ListForbidden, "UNAUTHORIZED"), ChNotFound, ListForbidden)
         ELSE [req[r] EXCEPT !.pc = "l_find"]]
    /\ UNCHANGED <<db, challenge, flagAttempt, now>>

\* the where clause is missing: the rows of every challenge are returned
AttemptsOf_AnyChallenge(c) == DOMAIN flagAttempt

\* where: { challengeId }
AttemptsOf(c) == {a \in DOMAIN flagAttempt : flagAttempt[a].challengeId = c}

\* orderBy: { createdAt: "desc" }; rows of equal createdAt come in any order
IsNewestFirst(s) ==
    \A i, j \in DOMAIN s :
        i < j => flagAttempt[s[i]].createdAt >= flagAttempt[s[j]].createdAt

Orderings(ids) ==
    {s \in [1..Cardinality(ids) -> ids] :
        /\ \A i, j \in DOMAIN s : i # j => s[i] # s[j]
        /\ IsNewestFirst(s)}

\* await prisma.flagAttempt.findMany
ListFindMany(r) ==
    /\ req[r].pc = "l_find"
    /\ \E s \in Orderings(AttemptsOf(req[r].cid)) :
         req' = [req EXCEPT ![r] =
           Done([req[r] EXCEPT !.data = Some(s)],
                IF revision = "throwing" THEN Returned ELSE Envelope("", ""),
                ChNotFound, ListForbidden)]
    /\ UNCHANGED <<db, challenge, flagAttempt, now>>

\* -------------------------------------------------------- getFlagAttemptById
\* the route path names an event and a challenge besides the attempt
StartGetIn(r, events, challenges, attempts) ==
    /\ CanStart(r)
    /\ \E v \in {"http", "service"}, u \in UserIds, e \in events, c \in challenges,
          a \in attempts :
          req' = [req EXCEPT ![r] =
                    Begin(r, "Get", v, u, c, e, "f1", FALSE, a, Null, "g_find")]
    /\ UNCHANGED <<db, challenge, flagAttempt, now>>

StartGet(r) == StartGetIn(r, {"e1"}, {"c1"}, AttemptIds)

\* await prisma.flagAttempt.findUnique({ include: { challenge } })
GetFind(r) ==
    /\ req[r].pc = "g_find"
    /\ LET found == FindAttempt(req[r].aid) IN
       req' = [req EXCEPT ![r] =
         IF IsNull(found)
         THEN Done(req[r], ServiceError(AttNotFound, "NOT_FOUND"), AttNotFound, GetForbidden)
         ELSE [req[r] EXCEPT !.pc = "g_member", !.data = found,
                             !.cch = FindChallenge(Val(found).challengeId)]]
    /\ UNCHANGED <<db, challenge, flagAttempt, now>>

\* await prisma.teamMember.findUnique
GetFindMember(r) ==
    /\ req[r].pc = "g_member"
    /\ req' = [req EXCEPT ![r] =
         IF ~IsTeamMember(req[r].user, Val(req[r].cch).teamId)
         THEN Done([req[r] EXCEPT !.data = Null],
                   ServiceError(GetForbidden, "UNAUTHORIZED"), AttNotFound, GetForbidden)
         ELSE Done(req[r], IF revision = "throwing" THEN Returned ELSE Envelope("", ""),
                   AttNotFound, GetForbidden)]
    /\ UNCHANGED <<db, challenge, flagAttempt, now>>

\* --------------------------------------------------- addCommentToFlagAttempt
StartAnnotateIn(r, events, challenges, attempts) ==
    /\ CanStart(r)
    /\ \E v \in {"http", "service"}, u \in UserIds, e \in events, c \in challenges,
          a \in attempts, cm \in Comments :
          req' = [req EXCEPT ![r] =
                    Begin(r, "Annotate", v, u, c, e, "f1", FALSE, a, Some(cm), "a_find")]
    /\ UNCHANGED <<db, challenge, flagAttempt, now>>

StartAnnotate(r) == StartAnnotateIn(r, {"e1"}, {"c1"}, AttemptIds)

\* await prisma.flagAttempt.findUnique({ include: { challenge } })
AnnFind(r) ==
    /\ req[r].pc = "a_find"
    /\ LET found == FindAttempt(req[r].aid) IN
       req' = [req EXCEPT ![r] =
         IF IsNull(found)
         THEN Done(req[r], ServiceError(AttNotFound, "NOT_FOUND"), AttNotFound, AnnForbidden)
         ELSE [req[r] EXCEPT !.pc = "a_member",
                             !.cch = FindChallenge(Val(found).challengeId)]]
    /\ UNCHANGED <<db, challenge, flagAttempt, now>>

\* await prisma.teamMember.findUnique
AnnFindMember(r) ==
    /\ req[r].pc = "a_member"
    /\ req' = [req EXCEPT ![r] =
         IF ~IsTeamMember(req[r].user, Val(req[r].cch).teamId)
         THEN Done(req[r], ServiceError(AnnForbidden, "UNAUTHORIZED"), AttNotFound, AnnForbidden)
         ELSE [req[r] EXCEPT !.pc = "a_update"]]
    /\ UNCHANGED <<db, challenge, flagAttempt, now>>

\* await prisma.flagAttempt.update({ where: { id }, data: { comment } })
AnnUpdate(r) ==
    /\ req[r].pc = "a_update"
    /\ LET a == req[r].aid
           row == CommentUpdate(flagAttempt[a], Val(req[r].comment)) IN
       /\ flagAttempt' = [flagAttempt EXCEPT ![a] = row]
       /\ req' = [req EXCEPT ![r] =
            Done([req[r] EXCEPT !.data = Some(row), !.upd = @ + 1],
                 IF revision = "throwing" THEN Returned ELSE Envelope("", ""),
                 AttNotFound, AnnForbidden)]
    /\ UNCHANGED <<db, challenge, now>>

\* prisma.flagAttempt.update rejects
AnnUpdateFail(r) ==
    /\ req[r].pc = "a_update"
    /\ req' = [req EXCEPT ![r] =
         Done([req[r] EXCEPT !.fault = TRUE], ServiceError(PrismaError, "SERVER_ERROR"),
              AttNotFound, AnnForbidden)]
    /\ UNCHANGED <<db, challenge, flagAttempt, now>>

Next ==
    \/ Tick
    \/ \E r \in Reqs : Validate(r)
    \/ \E r \in Reqs : StartSolve(r)
    \/ \E r \in Reqs : SolveFindEvent(r)
    \/ \E r \in Reqs : SolveFindChallenge(r)
    \/ \E r \in Reqs : SolveFindMember(r)
    \/ \E r \in Reqs : StartRecord(r)
    \/ \E r \in Reqs : CfaFindChallenge(r)
    \/ \E r \in Reqs : CfaFindMember(r)
    \/ \E r \in Reqs : CfaInsert(r)
    \/ \E r \in Reqs : CfaInsertFail(r)
    \/ \E r \in Reqs : SolveUpdate(r)
    \/ \E r \in Reqs : SolveUpdateFail(r)
    \/ \E r \in Reqs : StartList(r)
    \/ \E r \in Reqs : ListFindChallenge(r)
    \/ \E r \in Reqs : ListFindMember(r)
    \/ \E r \in Reqs : ListFindMany(r)
    \/ \E r \in Reqs : StartGet(r)
    \/ \E r \in Reqs : GetFind(r)
    \/ \E r \in Reqs : GetFindMember(r)
    \/ \E r \in Reqs : StartAnnotate(r)
    \/ \E r \in Reqs : AnnFind(r)
    \/ \E r \in Reqs : AnnFindMember(r)
    \/ \E r \in Reqs : AnnUpdate(r)
    \/ \E r \in Reqs : AnnUpdateFail(r)

Spec == Init /\ [][Next]_vars

\* --------------------------------------------- challenges of any worth solved
\* the points column is nullable and createChallenge stores whatever was given
InitSolve ==
    /\ Tables
    /\ challenge \in {ChallengeRows(p) : p \in {Null, Some(0), Some(100)}}
    /\ flagAttempt = <<>>

NextSolve ==
    \/ Tick
    \/ \E r \in Reqs : Validate(r)
    \/ \E r \in Reqs : StartSolve(r)
    \/ \E r \in Reqs : SolveFindEvent(r)
    \/ \E r \in Reqs : SolveFindChallenge(r)
    \/ \E r \in Reqs : SolveFindMember(r)
    \/ \E r \in Reqs : CfaFindChallenge(r)
    \/ \E r \in Reqs : CfaFindMember(r)
    \/ \E r \in Reqs : CfaInsert(r)
    \/ \E r \in Reqs : CfaInsertFail(r)
    \/ \E r \in Reqs : SolveUpdate(r)
    \/ \E r \in Reqs : SolveUpdateFail(r)

SpecSolve == InitSolve /\ [][NextSolve]_vars

\* ------------------------------------------- the ledger read and annotated
\* a ledger that earlier submissions left behind: two failed attempts on c1 at
\* different times and one on c2
SeededLedger ==
    <<NewFlagAttempt("f2", FALSE, Some("Tentative echouee"), "u1", "c1", 0),
      NewFlagAttempt("f1", FALSE, Some("Tentative echouee"), "u1", "c2", 0),
      NewFlagAttempt("f2", FALSE, Some("Tentative echouee"), "u1", "c1", 1)>>

SeededAttemptIds == DOMAIN SeededLedger

InitLedger ==
    /\ Tables
    /\ challenge = ChallengeRows(Some(100))
    /\ flagAttempt = SeededLedger

LedgerStartGet(r) == StartGetIn(r, EventIds, ChallengeIds, SeededAttemptIds)
LedgerStartAnnotate(r) == StartAnnotateIn(r, EventIds, ChallengeIds, SeededAttemptIds)

NextLedger ==
    \/ Tick
    \/ \E r \in Reqs : Validate(r)
    \/ \E r \in Reqs : StartList(r)
    \/ \E r \in Reqs : ListFindChallenge(r)
    \/ \E r \in Reqs : ListFindMember(r)
    \/ \E r \in Reqs : ListFindMany(r)
    \/ \E r \in Reqs : LedgerStartGet(r)
    \/ \E r \in Reqs : GetFind(r)
    \/ \E r \in Reqs : GetFindMember(r)
    \/ \E r \in Reqs : LedgerStartAnnotate(r)
    \/ \E r \in Reqs : AnnFind(r)
    \/ \E r \in Reqs : AnnFindMember(r)
    \/ \E r \in Reqs : AnnUpdate(r)
    \/ \E r \in Reqs : AnnUpdateFail(r)

SpecLedger == InitLedger /\ [][NextLedger]_vars

\* ------------------------------------------ updateNoteById / deleteNoteById
NoteUsers == {"u1", "u2", "u3", "u4"}
NoteIds == {"m1", "m2"}
MissingNote == "m0"
Contents == {"x1", "x2"}

NoteNotFound == "Note non trouvee"
NoteUpdateForbidden == "Non autorise a modifier cette note"
NoteDeleteForbidden == "Non autorise a supprimer cette note"

\* prisma.note.findUnique({ where: { id }, include: { challenge } })
FindNote(n) == IF n \in DOMAIN note THEN Some(note[n]) ELSE Null

\* prisma.teamMember.findUnique({ where: { userId_teamId } })
FindTeamMember(u, t) ==
    IF \E i \in DOMAIN teamMember : teamMember[i].userId = u /\ teamMember[i].teamId = t
    THEN Some(teamMember[CHOOSE i \in DOMAIN teamMember :
                            teamMember[i].userId = u /\ teamMember[i].teamId = t])
    ELSE Null

\* if (!teamMember || teamMember.role !== "ADMIN") throw
MayModerate(found) == ~IsNull(found) /\ Val(found).role = "ADMIN"

BeginNote(r, o, u, n, x) ==
    [req[r] EXCEPT !.op = o, !.via = "service", !.user = u, !.nid = n, !.content = x,
                   !.startedAt = now, !.pc = "n_find"]

StartUpdateNote(r) ==
    /\ CanStart(r)
    /\ \E u \in NoteUsers, n \in NoteIds \cup {MissingNote}, x \in Contents :
          req' = [req EXCEPT ![r] = BeginNote(r, "UpdateNote", u, n, x)]
    /\ UNCHANGED <<db, challenge, flagAttempt, now>>

StartDeleteNote(r) ==
    /\ CanStart(r)
    /\ \E u \in NoteUsers, n \in NoteIds \cup {MissingNote} :
          req' = [req EXCEPT ![r] = BeginNote(r, "DeleteNote", u, n, "x1")]
    /\ UNCHANGED <<db, challenge, flagAttempt, now>>

\* await prisma.note.findUnique, then the author test
NoteFind(r) ==
    /\ req[r].pc = "n_find"
    /\ LET found == FindNote(req[r].nid) IN
       req' = [req EXCEPT ![r] =
         IF IsNull(found) THEN Done(req[r], Throw(NoteNotFound), "", "")
         ELSE IF Val(found).userId # req[r].user
         THEN [req[r] EXCEPT !.pc = "n_member", !.found = found]
         ELSE [req[r] EXCEPT !.pc = "n_write", !.found = found]]
    /\ UNCHANGED <<db, challenge, flagAttempt, now>>

\* await prisma.teamMember.findUnique, then the role test
NoteFindMember(r) ==
    /\ req[r].pc = "n_member"
    /\ LET t == challenge[Val(req[r].found).challengeId].teamId IN
       req' = [req EXCEPT ![r] =
         IF ~MayModerate(FindTeamMember(req[r].user, t))
         THEN Done(req[r], Throw(IF req[r].op = "UpdateNote" THEN NoteUpdateForbidden
                                 ELSE NoteDeleteForbidden), "", "")
         ELSE [req[r] EXCEPT !.pc = "n_write"]]
    /\ UNCHANGED <<db, challenge, flagAttempt, now>>

\* await prisma.note.update({ data: { content, updatedAt: new Date() } }); the
\* update of a row deleted in the meantime rejects
NoteUpdate(r) ==
    /\ req[r].pc = "n_write"
    /\ req[r].op = "UpdateNote"
    /\ IF req[r].nid \in DOMAIN note
       THEN /\ note' = [note EXCEPT ![req[r].nid] =
                          [@ EXCEPT !.content = req[r].content, !.updatedAt = now]]
            /\ req' = [req EXCEPT ![r] = Done([req[r] EXCEPT !.upd = @ + 1], Returned, "", "")]
       ELSE /\ note' = note
            /\ req' = [req EXCEPT ![r] =
                        Done([req[r] EXCEPT !.fault = TRUE], Throw(PrismaError), "", "")]
    /\ UNCHANGED <<revision, event, teamMember, team, eventTeam, assignment,
                   challenge, flagAttempt, now>>

\* await prisma.note.delete({ where: { id } }); likewise
NoteDelete(r) ==
    /\ req[r].pc = "n_write"
    /\ req[r].op = "DeleteNote"
    /\ IF req[r].nid \in DOMAIN note
       THEN /\ note' = [n \in DOMAIN note \ {req[r].nid} |-> note[n]]
            /\ req' = [req EXCEPT ![r] = Done([req[r] EXCEPT !.upd = @ + 1], Returned, "", "")]
       ELSE /\ note' = note
            /\ req' = [req EXCEPT ![r] =
                        Done([req[r] EXCEPT !.fault = TRUE], Throw(PrismaError), "", "")]
    /\ UNCHANGED <<revision, event, teamMember, team, eventTeam, assignment,
                   challenge, flagAttempt, now>>

NextNotes ==
    \/ Tick
    \/ \E r \in Reqs : StartUpdateNote(r)
    \/ \E r \in Reqs : StartDeleteNote(r)
    \/ \E r \in Reqs : NoteFind(r)
    \/ \E r \in Reqs : NoteFindMember(r)
    \/ \E r \in Reqs : NoteUpdate(r)
    \/ \E r \in Reqs : NoteDelete(r)

SpecNotes == Init /\ [][NextNotes]_vars

\* ------------------------- createTeam / createTeamForEvent / joinTeamWithInviteCode
TeamUsers == {"u1", "u2"}
TeamNames == {"n1", "n2"}
InviteCodes == {"i1", "i2"}
\* the ids the store gives new Team rows, in order of creation
TeamIdSeq == <<"t1", "t2", "t3", "t4", "t5">>

TeamNameTaken == "Ce nom d'equipe est deja utilise"
EventTeamNameTaken == "Une equipe avec ce nom existe deja"
InvalidCode == "Code d'invitation invalide"
AlreadyMember == "Vous etes deja membre de cette equipe"

\* prisma.team.findUnique({ where: { name } }) is non-null
TeamNamed(n) == \E i \in DOMAIN team : team[i].name = n

\* prisma.team.findUnique({ where: { inviteCode } })
FindTeamByCode(c) ==
    IF \E i \in DOMAIN team : team[i].inviteCode = c
    THEN Some(team[CHOOSE i \in DOMAIN team : team[i].inviteCode = c])
    ELSE Null

\* Team_name_key and Team_inviteCode_key admit the row
TeamKeysFree(n, c) == \A i \in DOMAIN team : team[i].name # n /\ team[i].inviteCode # c

\* the table has no unique index on (userId, teamId)
TeamMemberKeyFree_NoIndex(u, t) == TRUE

\* TeamMember_userId_teamId_key admits the row
TeamMemberKeyFree(u, t) ==
    \A i \in DOMAIN teamMember : ~(teamMember[i].userId = u /\ teamMember[i].teamId = t)

\* joinTeamSchema: body.inviteCode is a non-empty string
joinTeamSchema(input) ==
    /\ "inviteCode" \in DOMAIN input.body
    /\ input.body.inviteCode # ""

\* POST /join: the handler's answer and its catch block
JoinHandlerStatus(o) ==
    IF o.kind = "return" THEN 200
    ELSE IF o.msg = InvalidCode THEN 404
    ELSE IF o.msg = AlreadyMember THEN 409
    ELSE 500

DoneTeam(q, o) ==
    [q EXCEPT !.pc = "done", !.outcome = o,
              !.status = IF q.via = "http" THEN Some(JoinHandlerStatus(o)) ELSE Null]

StartCreateTeam(r) ==
    /\ CanStart(r)
    /\ \E u \in TeamUsers, n \in TeamNames :
          req' = [req EXCEPT ![r] =
                    [req[r] EXCEPT !.op = "CreateTeam", !.via = "service", !.user = u,
                                   !.name = n, !.startedAt = now, !.pc = "t_find"]]
    /\ UNCHANGED <<db, challenge, flagAttempt, now>>

StartCreateTeamForEvent(r) ==
    /\ CanStart(r)
    /\ \E u \in TeamUsers, n \in TeamNames, e \in EventIds \cup {MissingEvent} :
          req' = [req EXCEPT ![r] =
                    [req[r] EXCEPT !.op = "CreateTeamForEvent", !.via = "service",
                                   !.user = u, !.name = n, !.eid = e, !.startedAt = now,
                                   !.pc = "t_event"]]
    /\ UNCHANGED <<db, challenge, flagAttempt, now>>

\* await prisma.event.findUnique
TeamFindEvent(r) ==
    /\ req[r].pc = "t_event"
    /\ req' = [req EXCEPT ![r] =
         IF ~EventExists(req[r].eid) THEN DoneTeam(req[r], Throw(EvtNotFound))
         ELSE [req[r] EXCEPT !.pc = "t_find"]]
    /\ UNCHANGED <<db, challenge, flagAttempt, now>>

\* await prisma.team.findUnique({ where: { name } })
TeamFindName(r) ==
    /\ req[r].pc = "t_find"
    /\ req' = [req EXCEPT ![r] =
         IF TeamNamed(req[r].name)
         THEN DoneTeam(req[r], Throw(IF req[r].op = "CreateTeam" THEN TeamNameTaken
                                     ELSE EventTeamNameTaken))
         ELSE [req[r] EXCEPT !.pc = "t_create"]]
    /\ UNCHANGED <<db, challenge, flagAttempt, now>>

\* await prisma.team.create with a freshly drawn invite code; the unique indexes
\* reject a name or code taken in the meantime
TeamCreate(r) ==
    /\ req[r].pc = "t_create"
    /\ Len(team) < Len(TeamIdSeq)
    /\ \E c \in InviteCodes :
         IF TeamKeysFree(req[r].name, c)
         THEN LET id == TeamIdSeq[Len(team) + 1] IN
              /\ team' = Append(team, [id |-> id, name |-> req[r].name, inviteCode |-> c,
                                       ownerId |-> req[r].user])
              /\ req' = [req EXCEPT ![r] = [@ EXCEPT !.tid = id, !.pc = "t_member"]]
         ELSE /\ team' = team
              /\ req' = [req EXCEPT ![r] =
                          DoneTeam([req[r] EXCEPT !.fault = TRUE], Throw(PrismaError))]
    /\ UNCHANGED <<revision, event, teamMember, eventTeam, assignment, note,
                   challenge, flagAttempt, now>>

\* await prisma.teamMember.create({ role: "OWNER" }); the team was created by this
\* call, so the index admits its first row
TeamCreateOwner(r) ==
    /\ req[r].pc = "t_member"
    /\ TeamMemberKeyFree(req[r].user, req[r].tid)
    /\ teamMember' = Append(teamMember,
                            [userId |-> req[r].user, teamId |-> req[r].tid, role |-> "OWNER"])
    /\ req' = [req EXCEPT ![r] =
         IF req[r].op = "CreateTeam" THEN DoneTeam([req[r] EXCEPT !.upd = @ + 1], Returned)
         ELSE [req[r] EXCEPT !.upd = @ + 1, !.pc = "t_link"]]
    /\ UNCHANGED <<revision, event, team, eventTeam, assignment, note,
                   challenge, flagAttempt, now>>

\* prisma.teamMember.create rejects: the store is unreachable or refuses the write;
\* the Team row written before stays
TeamCreateOwnerFail(r) ==
    /\ req[r].pc = "t_member"
    /\ req' = [req EXCEPT ![r] = DoneTeam([req[r] EXCEPT !.fault = TRUE], Throw(PrismaError))]
    /\ UNCHANGED <<db, challenge, flagAttempt, now>>

\* await prisma.eventTeam.create
TeamLinkEvent(r) ==
    /\ req[r].pc = "t_link"
    /\ eventTeam' = eventTeam \cup {<<req[r].eid, req[r].tid>>}
    /\ req' = [req EXCEPT ![r] = DoneTeam(req[r], Returned)]
    /\ UNCHANGED <<revision, event, teamMember, team, assignment, note,
                   challenge, flagAttempt, now>>

\* POST /join, or joinTeamWithInviteCode called directly
StartJoin(r) ==
    /\ CanStart(r)
    /\ \E v \in {"http", "service"}, u \in TeamUsers, c \in InviteCodes \cup {""} :
          /\ v = "service" => c # ""
          /\ req' = [req EXCEPT ![r] =
                [req[r] EXCEPT !.op = "Join", !.via = v, !.user = u, !.code = c,
                               !.startedAt = now,
                               !.wasThere = \E i \in DOMAIN team, j \in DOMAIN teamMember :
                                               /\ team[i].inviteCode = c
                                               /\ teamMember[j].teamId = team[i].id
                                               /\ teamMember[j].userId = u,
                               !.pc = IF v = "http" THEN "j_validate" ELSE "j_team"]]
    /\ UNCHANGED <<db, challenge, flagAttempt, now>>

\* validate(joinTeamSchema)
JoinValidate(r) ==
    /\ req[r].pc = "j_validate"
    /\ req' = [req EXCEPT ![r] =
         IF joinTeamSchema([body |-> [inviteCode |-> req[r].code]])
         THEN [req[r] EXCEPT !.pc = "j_team"]
         ELSE [req[r] EXCEPT !.pc = "done", !.status = Some(400)]]
    /\ UNCHANGED <<db, challenge, flagAttempt, now>>

\* await prisma.team.findUnique({ where: { inviteCode } })
JoinFindTeam(r) ==
    /\ req[r].pc = "j_team"
    /\ LET found == FindTeamByCode(req[r].code) IN
       req' = [req EXCEPT ![r] =
         IF IsNull(found) THEN DoneTeam(req[r], Throw(InvalidCode))
         ELSE [req[r] EXCEPT !.pc = "j_member", !.found = found, !.tid = Val(found).id]]
    /\ UNCHANGED <<db, challenge, flagAttempt, now>>

\* await prisma.teamMember.findUnique({ where: { userId_teamId } })
JoinFindMember(r) ==
    /\ req[r].pc = "j_member"
    /\ req' = [req EXCEPT ![r] =
         IF IsTeamMember(req[r].user, req[r].tid) THEN DoneTeam(req[r], Throw(AlreadyMember))
         ELSE [req[r] EXCEPT !.pc = "j_insert"]]
    /\ UNCHANGED <<db, challenge, flagAttempt, now>>

\* await prisma.teamMember.create({ role: "MEMBER" }); the unique index rejects a
\* second row of the same user and team
JoinInsert(r) ==
    /\ req[r].pc = "j_insert"
    /\ IF TeamMemberKeyFree(req[r].user, req[r].tid)
       THEN /\ teamMember' = Append(teamMember,
                  [userId |-> req[r].user, teamId |-> req[r].tid, role |-> "MEMBER"])
            /\ req' = [req EXCEPT ![r] = DoneTeam([req[r] EXCEPT !.upd = @ + 1], Returned)]
       ELSE /\ teamMember' = teamMember
            /\ req' = [req EXCEPT ![r] =
                        DoneTeam([req[r] EXCEPT !.fault = TRUE], Throw(PrismaError))]
    /\ UNCHANGED <<revision, event, team, eventTeam, assignment, note,
                   challenge, flagAttempt, now>>

NextTeams ==
    \/ \E r \in Reqs : StartCreateTeam(r)
    \/ \E r \in Reqs : StartCreateTeamForEvent(r)
    \/ \E r \in Reqs : TeamFindEvent(r)
    \/ \E r \in Reqs : TeamFindName(r)
    \/ \E r \in Reqs : TeamCreate(r)
    \/ \E r \in Reqs : TeamCreateOwner(r)
    \/ \E r \in Reqs : TeamCreateOwnerFail(r)
    \/ \E r \in Reqs : TeamLinkEvent(r)
    \/ \E r \in Reqs : StartJoin(r)
    \/ \E r \in Reqs : JoinValidate(r)
    \/ \E r \in Reqs : JoinFindTeam(r)
    \/ \E r \in Reqs : JoinFindMember(r)
    \/ \E r \in Reqs : JoinInsert(r)

SpecTeams == Init /\ [][NextTeams]_vars

\* ------------------------------------------------ createChallenge (event-scoped)
ChallengeNames == {"n1", "n2"}
TeamIds == {"t1"}
UnlinkedTeam == "t0"
PointsInputs == {Null, Some(""), Some("50")}
\* the ids the store gives new Challenge rows, in order of creation
ChallengeIdSeq == <<"c1", "c2", "c3", "c4", "c5">>

TeamNotInEvent == "Cette equipe n'est pas associee a cet evenement"
NotTeamMember == "Vous n'etes pas membre de cette equipe"
DuplicateName == "Un challenge avec ce nom existe deja pour cet evenement et cette equipe"

\* parseInt on the decimal strings submitted
ParseInt(s) == IF s = "50" THEN 50 ELSE 0

\* points: points ? parseInt(points) : undefined
ParsePoints(p) == IF IsNull(p) \/ Val(p) = "" THEN Null ELSE Some(ParseInt(Val(p)))

\* prisma.eventTeam.findUnique({ where: { eventId_teamId } }) is non-null
TeamInEvent(e, t) == <<e, t>> \in eventTeam

\* prisma.challenge.findUnique({ where: { name_teamId_eventId } }) is non-null
ChallengeNamed(n, t, e) ==
    \E c \in DOMAIN challenge :
        challenge[c].name = n /\ challenge[c].teamId = t /\ challenge[c].eventId = e

\* the table has no unique index on (name, teamId, eventId)
ChallengeKeyFree_NoIndex(n, t, e) == TRUE

\* Challenge_name_teamId_eventId_key admits the row
ChallengeKeyFree(n, t, e) ==
    \A c \in DOMAIN challenge :
        ~(challenge[c].name = n /\ challenge[c].teamId = t /\ challenge[c].eventId = e)

\* data: { name, description, category, points, teamId, eventId }; flag, solved and
\* solvedAt take the column defaults
NewChallenge(n, p, t, e) ==
    [name |-> n, eventId |-> e, teamId |-> t, flag |-> Null, points |-> ParsePoints(p),
     solved |-> FALSE, solvedAt |-> Null]

StartCreateChallenge(r) ==
    /\ CanStart(r)
    /\ \E u \in UserIds, n \in ChallengeNames, t \in TeamIds \cup {UnlinkedTeam},
          e \in EventIds \cup {MissingEvent}, p \in PointsInputs :
          req' = [req EXCEPT ![r] =
                [req[r] EXCEPT !.op = "CreateChallenge", !.via = "service", !.user = u,
                               !.name = n, !.tid = t, !.eid = e, !.data = p,
                               !.startedAt = now,
                               !.wasThere = \E c \in DOMAIN challenge :
                                               /\ challenge[c].name = n
                                               /\ challenge[c].teamId = t
                                               /\ challenge[c].eventId = e,
                               !.pc = "cc_event"]]
    /\ UNCHANGED <<db, challenge, flagAttempt, now>>

\* await prisma.event.findUnique
ChFindEvent(r) ==
    /\ req[r].pc = "cc_event"
    /\ req' = [req EXCEPT ![r] =
         IF ~EventExists(req[r].eid) THEN Done(req[r], Throw(EvtNotFound), "", "")
         ELSE [req[r] EXCEPT !.pc = "cc_team"]]
    /\ UNCHANGED <<db, challenge, flagAttempt, now>>

\* await prisma.eventTeam.findUnique
ChFindEventTeam(r) ==
    /\ req[r].pc = "cc_team"
    /\ req' = [req EXCEPT ![r] =
         IF ~TeamInEvent(req[r].eid, req[r].tid)
         THEN Done(req[r], Throw(TeamNotInEvent), "", "")
         ELSE [req[r] EXCEPT !.pc = "cc_member"]]
    /\ UNCHANGED <<db, challenge, flagAttempt, now>>

\* await prisma.teamMember.findUnique
ChFindMember(r) ==
    /\ req[r].pc = "cc_member"
    /\ req' = [req EXCEPT ![r] =
         IF ~IsTeamMember(req[r].user, req[r].tid)
         THEN Done(req[r], Throw(NotTeamMember), "", "")
         ELSE [req[r] EXCEPT !.pc = "cc_name"]]
    /\ UNCHANGED <<db, challenge, flagAttempt, now>>

\* await prisma.challenge.findUnique({ where: { name_teamId_eventId } })
ChFindName(r) ==
    /\ req[r].pc = "cc_name"
    /\ req' = [req EXCEPT ![r] =
         IF ChallengeNamed(req[r].name, req[r].tid, req[r].eid)
         THEN Done(req[r], Throw(DuplicateName), "", "")
         ELSE [req[r] EXCEPT !.pc = "cc_create"]]
    /\ UNCHANGED <<db, challenge, flagAttempt, now>>

\* await prisma.challenge.create; the unique index rejects a triple taken in the
\* meantime
ChCreate(r) ==
    /\ req[r].pc = "cc_create"
    /\ Cardinality(DOMAIN challenge) < Len(ChallengeIdSeq)
    /\ IF ChallengeKeyFree(req[r].name, req[r].tid, req[r].eid)
       THEN LET id == ChallengeIdSeq[Cardinality(DOMAIN challenge) + 1] IN
            /\ challenge' =
                  [c \in DOMAIN challenge \cup {id} |->
                     IF c = id
                     THEN NewChallenge(req[r].name, req[r].data, req[r].tid, req[r].eid)
                     ELSE challenge[c]]
            /\ req' = [req EXCEPT ![r] = [@ EXCEPT !.cid = id, !.upd = @ + 1,
                                                   !.pc = "cc_assign"]]
       ELSE /\ challenge' = challenge
            /\ req' = [req EXCEPT ![r] =
                        Done([req[r] EXCEPT !.fault = TRUE], Throw(PrismaError), "", "")]
    /\ UNCHANGED <<db, flagAttempt, now>>

\* await prisma.challengeAssignment.create
ChAssign(r) ==
    /\ req[r].pc = "cc_assign"
    /\ assignment' = Append(assignment,
                            [challengeId |-> req[r].cid, userId |-> req[r].user])
    /\ req' = [req EXCEPT ![r] =
         Done([req[r] EXCEPT !.rows = @ \cup {Len(assignment) + 1}], Returned, "", "")]
    /\ UNCHANGED <<revision, event, teamMember, team, eventTeam, note,
                   challenge, flagAttempt, now>>

\* POST / (create challenge): the handler's answer and its catch block
CreateHandlerStatus(o) ==
    IF o.kind = "return" THEN 201
    ELSE IF o.msg \in {EvtNotFound, "Equipe non trouvee"} THEN 404
    ELSE IF o.msg = "Non autorise a creer un challenge pour cet evenement" THEN 403
    ELSE 500

\* ------------------------------------------------------ assignUserToChallenge
\* the User table: the accounts that exist
Users == {"u1", "u2", "u3", "u4"}
MissingUser == "u0"
TargetUsers == {"u1", "u2", MissingUser}

UserNotFound == "Utilisateur non trouve"
TargetNotMember == "L'utilisateur cible n'est pas membre de l'equipe du challenge"
AssignForbidden == "Non autorise a assigner un utilisateur a ce challenge"
AlreadyAssigned == "Cet utilisateur est deja assigne a ce challenge"

\* prisma.user.findUnique({ where: { id } }) is non-null
UserExists(u) == u \in Users

\* prisma.challengeAssignment.findUnique({ where: { challengeId_userId } }) is non-null
IsAssigned(c, u) ==
    \E i \in DOMAIN assignment : assignment[i].challengeId = c /\ assignment[i].userId = u

\* ChallengeAssignment_challengeId_userId_key admits the row
AssignmentKeyFree(c, u) ==
    \A i \in DOMAIN assignment : ~(assignment[i].challengeId = c /\ assignment[i].userId = u)

\* POST /:challengeId/assign: the handler's answer and its catch block
AssignHandlerStatus(o) ==
    IF o.kind = "return" THEN 200
    ELSE IF o.msg \in {ChNotFound, EvtNotFound, UserNotFound} THEN 404
    ELSE IF o.msg = "Utilisateur deja assigne a ce challenge" THEN 400
    ELSE IF o.msg = AssignForbidden THEN 403
    ELSE 500

StartAssign(r) ==
    /\ CanStart(r)
    /\ \E u \in UserIds, c \in {"c1", MissingChallenge}, t \in TargetUsers :
          req' = [req EXCEPT ![r] =
                [req[r] EXCEPT !.op = "Assign", !.via = "service", !.user = u, !.cid = c,
                               !.target = t, !.startedAt = now,
                               !.wasThere = \E i \in DOMAIN assignment :
                                               /\ assignment[i].challengeId = c
                                               /\ assignment[i].userId = t,
                               !.pc = "as_challenge"]]
    /\ UNCHANGED <<db, challenge, flagAttempt, now>>

\* await prisma.challenge.findUnique
AsFindChallenge(r) ==
    /\ req[r].pc = "as_challenge"
    /\ LET found == FindChallenge(req[r].cid) IN
       req' = [req EXCEPT ![r] =
         IF IsNull(found) THEN Done(req[r], Throw(ChNotFound), "", "")
         ELSE [req[r] EXCEPT !.pc = "as_user", !.ch = found]]
    /\ UNCHANGED <<db, challenge, flagAttempt, now>>

\* await prisma.user.findUnique
AsFindUser(r) ==
    /\ req[r].pc = "as_user"
    /\ req' = [req EXCEPT ![r] =
         IF ~UserExists(req[r].target) THEN Done(req[r], Throw(UserNotFound), "", "")
         ELSE [req[r] EXCEPT !.pc = "as_target"]]
    /\ UNCHANGED <<db, challenge, flagAttempt, now>>

\* await prisma.teamMember.findUnique for the target user
AsFindTarget(r) ==
    /\ req[r].pc = "as_target"
    /\ req' = [req EXCEPT ![r] =
         IF ~IsTeamMember(req[r].target, Val(req[r].ch).teamId)
         THEN Done(req[r], Throw(TargetNotMember), "", "")
         ELSE [req[r] EXCEPT !.pc = "as_member"]]
    /\ UNCHANGED <<db, challenge, flagAttempt, now>>

\* await prisma.teamMember.findUnique for the requester
AsFindMember(r) ==
    /\ req[r].pc = "as_member"
    /\ req' = [req EXCEPT ![r] =
         IF ~IsTeamMember(req[r].user, Val(req[r].ch).teamId)
         THEN Done(req[r], Throw(AssignForbidden), "", "")
         ELSE [req[r] EXCEPT !.pc = "as_existing"]]
    /\ UNCHANGED <<db, challenge, flagAttempt, now>>

\* await prisma.challengeAssignment.findUnique
AsFindExisting(r) ==
    /\ req[r].pc = "as_existing"
    /\ req' = [req EXCEPT ![r] =
         IF IsAssigned(req[r].cid, req[r].target)
         THEN Done(req[r], Throw(AlreadyAssigned), "", "")
         ELSE [req[r] EXCEPT !.pc = "as_insert"]]
    /\ UNCHANGED <<db, challenge, flagAttempt, now>>

\* await prisma.challengeAssignment.create; the unique index rejects a pair taken
\* in the meantime
AsInsert(r) ==
    /\ req[r].pc = "as_insert"
    /\ IF AssignmentKeyFree(req[r].cid, req[r].target)
       THEN /\ assignment' = Append(assignment,
                  [challengeId |-> req[r].cid, userId |-> req[r].target])
            /\ req' = [req EXCEPT ![r] =
                  Done([req[r] EXCEPT !.rows = @ \cup {Len(assignment) + 1}], Returned, "", "")]
       ELSE /\ assignment' = assignment
            /\ req' = [req EXCEPT ![r] =
                        Done([req[r] EXCEPT !.fault = TRUE], Throw(PrismaError), "", "")]
    /\ UNCHANGED <<revision, event, teamMember, team, eventTeam, note,
                   challenge, flagAttempt, now>>

NextChallenges ==
    \/ \E r \in Reqs : StartAssign(r)
    \/ \E r \in Reqs : AsFindChallenge(r)
    \/ \E r \in Reqs : AsFindUser(r)
    \/ \E r \in Reqs : AsFindTarget(r)
    \/ \E r \in Reqs : AsFindMember(r)
    \/ \E r \in Reqs : AsFindExisting(r)
    \/ \E r \in Reqs : AsInsert(r)
    \/ \E r \in Reqs : StartCreateChallenge(r)
    \/ \E r \in Reqs : ChFindEvent(r)
    \/ \E r \in Reqs : ChFindEventTeam(r)
    \/ \E r \in Reqs : ChFindMember(r)
    \/ \E r \in Reqs : ChFindName(r)
    \/ \E r \in Reqs : ChCreate(r)
    \/ \E r \in Reqs : ChAssign(r)

SpecChallenges == Init /\ [][NextChallenges]_vars

\* ------------------------------ solveChallenge of challengeService (legacy)
NoAccess == "Vous n'avez pas acces a ce challenge"
WrongFlag == "Flag incorrect"

\* if (challenge.flag && challenge.flag !== flag) throw: a challenge without a
\* stored flag accepts every submission
LegacyFlagRejected(stored, submitted) == ~IsNull(stored) /\ stored # Some(submitted)

StartLegacySolve(r) ==
    /\ CanStart(r)
    /\ \E u \in UserIds, c \in ChallengeIds \cup {MissingChallenge}, f \in Flags :
          req' = [req EXCEPT ![r] =
                    Begin(r, "LegacySolve", "service", u, c, "e1", f, FALSE, 1, Null, "lg_challenge")]
    /\ UNCHANGED <<db, challenge, flagAttempt, now>>

\* await prisma.challenge.findUnique
LegacyFindChallenge(r) ==
    /\ req[r].pc = "lg_challenge"
    /\ LET found == FindChallenge(req[r].cid) IN
       req' = [req EXCEPT ![r] =
         IF IsNull(found) THEN Done(req[r], Throw(ChNotFound), "", "")
         ELSE [req[r] EXCEPT !.pc = "lg_member", !.ch = found]]
    /\ UNCHANGED <<db, challenge, flagAttempt, now>>

\* await prisma.teamMember.findUnique, then the flag test on the row read earlier
LegacyFindMember(r) ==
    /\ req[r].pc = "lg_member"
    /\ LET c == Val(req[r].ch) IN
       req' = [req EXCEPT ![r] =
         IF ~IsTeamMember(req[r].user, c.teamId) THEN Done(req[r], Throw(NoAccess), "", "")
         ELSE IF LegacyFlagRejected(c.flag, req[r].flag)
         THEN Done(req[r], Throw(WrongFlag), "", "")
         ELSE [req[r] EXCEPT !.pc = "lg_update"]]
    /\ UNCHANGED <<db, challenge, flagAttempt, now>>

\* return await prisma.challenge.update({ solved: true, solvedAt: new Date() })
LegacyUpdate(r) ==
    /\ req[r].pc = "lg_update"
    /\ challenge' = [challenge EXCEPT ![req[r].cid] = SolvedUpdate(@, now)]
    /\ req' = [req EXCEPT ![r] =
         Done([req[r] EXCEPT !.upd = @ + 1], [Returned EXCEPT !.solved = TRUE], "", "")]
    /\ UNCHANGED <<db, flagAttempt, now>>

\* both variants of solveChallenge at work on the same tables
NextVariants ==
    \/ Tick
    \/ \E r \in Reqs : Validate(r)
    \/ \E r \in Reqs : StartSolve(r)
    \/ \E r \in Reqs : SolveFindEvent(r)
    \/ \E r \in Reqs : SolveFindChallenge(r)
    \/ \E r \in Reqs : SolveFindMember(r)
    \/ \E r \in Reqs : CfaFindChallenge(r)
    \/ \E r \in Reqs : CfaFindMember(r)
    \/ \E r \in Reqs : CfaInsert(r)
    \/ \E r \in Reqs : CfaInsertFail(r)
    \/ \E r \in Reqs : SolveUpdate(r)
    \/ \E r \in Reqs : SolveUpdateFail(r)
    \/ \E r \in Reqs : StartLegacySolve(r)
    \/ \E r \in Reqs : LegacyFindChallenge(r)
    \/ \E r \in Reqs : LegacyFindMember(r)
    \/ \E r \in Reqs : LegacyUpdate(r)

SpecVariants == Init /\ [][NextVariants]_vars

\* --------------------------------- solveChallenge with every await settling
\* one continuation of request r: the step that follows the await it is parked on
SolveStep(r) ==
    \/ Validate(r)
    \/ SolveFindEvent(r)
    \/ SolveFindChallenge(r)
    \/ SolveFindMember(r)
    \/ CfaFindChallenge(r)
    \/ CfaFindMember(r)
    \/ CfaInsert(r)
    \/ SolveUpdate(r)

\* no prisma call rejects and the process keeps running; the calls are made
\* at one reading of the clock
NextLive ==
    \/ \E r \in Reqs : StartSolve(r)
    \/ \E r \in Reqs : SolveStep(r)

\* the event loop runs the continuation of every promise that has resolved
SpecLive ==
    /\ Init
    /\ [][NextLive]_vars
    /\ \A r \in Reqs : WF_vars(SolveStep(r))

\* ------------------------------------- a challenge created, then submitted to
\* POST / (create challenge): the handler reads name, description, category,
\* points, teamId and flag from the body and calls createChallenge(name,
\* description, category, points, teamId, eventId, userId); the flag of the body
\* stays in the request
StartCreateWithFlag(r) ==
    /\ CanStart(r)
    /\ \E n \in ChallengeNames, f \in Flags :
          req' = [req EXCEPT ![r] =
                [req[r] EXCEPT !.op = "CreateChallenge", !.via = "service", !.user = "u1",
                               !.name = n, !.tid = "t1", !.eid = "e1", !.data = Null,
                               !.flag = f, !.startedAt = now,
                               !.wasThere = \E c \in DOMAIN challenge :
                                               /\ challenge[c].name = n
                                               /\ challenge[c].teamId = "t1"
                                               /\ challenge[c].eventId = "e1",
                               !.pc = "cc_event"]]
    /\ UNCHANGED <<db, challenge, flagAttempt, now>>

\* solveChallenge addressed to c1 or to the first challenge created
StartSolveCreated(r) == StartSolveIn(r, {"service"}, {"c1", ChallengeIdSeq[3]}, {"e1"})

NextCreateSolve ==
    \/ Tick
    \/ \E r \in Reqs : StartCreateWithFlag(r)
    \/ \E r \in Reqs : ChFindEvent(r)
    \/ \E r \in Reqs : ChFindEventTeam(r)
    \/ \E r \in Reqs : ChFindMember(r)
    \/ \E r \in Reqs : ChFindName(r)
    \/ \E r \in Reqs : ChCreate(r)
    \/ \E r \in Reqs : ChAssign(r)
    \/ \E r \in Reqs : StartSolveCreated(r)
    \/ \E r \in Reqs : SolveFindEvent(r)
    \/ \E r \in Reqs : SolveFindChallenge(r)
    \/ \E r \in Reqs : SolveFindMember(r)
    \/ \E r \in Reqs : CfaFindChallenge(r)
    \/ \E r \in Reqs : CfaFindMember(r)
    \/ \E r \in Reqs : CfaInsert(r)
    \/ \E r \in Reqs : CfaInsertFail(r)
    \/ \E r \in Reqs : SolveUpdate(r)
    \/ \E r \in Reqs : SolveUpdateFail(r)

SpecCreateSolve == Init /\ [][NextCreateSolve]_vars

\* ------------------------------------ the middleware chain and the responses
\* the credential of a request: none, one verifyJWT rejects, one it accepts
Tokens == {"none", "bad", "good"}
Routes == {"Solve", "List", "Get", "Annotate"}

\* res.status(401).json({ message })
AuthBody == {"message"}
\* res.status(400).json({ message, errors })
ValidationBody == {"message", "errors"}
\* sendSuccess: { success, message, data, meta: { timestamp } }
SendSuccessBody == {"success", "message", "data", "meta.timestamp"}
\* sendError: { success, message, error, meta: { timestamp } }
SendErrorBody == {"success", "message", "error", "meta.timestamp"}

\* the fields of the body a finished HTTP request was answered with: a request the
\* middleware ended never reached the handler, which answers through sendSuccess
\* and sendError only
BodyOf(q) ==
    IF q.outcome.kind = "pending"
    THEN (IF q.status = Some(401) THEN AuthBody ELSE ValidationBody)
    ELSE IF q.status = Some(200) THEN SendSuccessBody
    ELSE SendErrorBody

StartHttp(r) ==
    /\ CanStart(r)
    /\ \E o \in Routes, k \in Tokens, u \in UserIds, c \in {"c1", MissingChallenge},
          a \in SeededAttemptIds :
          req' = [req EXCEPT ![r] =
                [Begin(r, o, "http", u, c, "e1", "f1", FALSE, a,
                       IF o = "Annotate" THEN Some("k1") ELSE Null, "h_auth")
                    EXCEPT !.token = k, !.pc = "h_auth"]]
    /\ UNCHANGED <<db, challenge, flagAttempt, now>>

\* authenticateJWT: 401 without a token or when verifyJWT rejects, next() otherwise
Authenticate(r) ==
    /\ req[r].pc = "h_auth"
    /\ req' = [req EXCEPT ![r] =
         IF req[r].token # "good"
         THEN [req[r] EXCEPT !.pc = "done", !.status = Some(401)]
         ELSE [req[r] EXCEPT !.pc = IF req[r].op \in {"Solve", "Annotate"} THEN "validate"
                                    ELSE IF req[r].op = "List" THEN "l_challenge"
                                    ELSE "g_find"]]
    /\ UNCHANGED <<db, challenge, flagAttempt, now>>

NextHttp ==
    \/ \E r \in Reqs : StartHttp(r)
    \/ \E r \in Reqs : Authenticate(r)
    \/ \E r \in Reqs : Validate(r)
    \/ \E r \in Reqs : ListFindChallenge(r)
    \/ \E r \in Reqs : ListFindMember(r)
    \/ \E r \in Reqs : ListFindMany(r)
    \/ \E r \in Reqs : GetFind(r)
    \/ \E r \in Reqs : GetFindMember(r)

SpecHttp == InitLedger /\ [][NextHttp]_vars

\* ======================================================================
\* Properties
\* ======================================================================
\* the facts of a request, read off the tables rather than off the handlers' tests
Exists(c) == c \in DOMAIN challenge
MemberOf(u, c) ==
    /\ Exists(c)
    /\ \E i \in DOMAIN teamMember :
          teamMember[i].userId = u /\ teamMember[i].teamId = challenge[c].teamId
RightEvent(q) == Exists(q.cid) /\ challenge[q.cid].eventId = q.eid
Correct(q) == Exists(q.cid) /\ challenge[q.cid].flag = <<q.flag>>
ReadUnsolved(q) == q.ch # Null /\ ~Val(q.ch).solved
ReadSolved(q) == q.ch # Null /\ Val(q.ch).solved

\* a finished call of the event-scoped solveChallenge by a team member, on an
\* existing challenge of the event it names
MemberSolve(r) ==
    /\ req[r].pc = "done"
    /\ req[r].op = "Solve"
    /\ req[r].via = "service"
    /\ RightEvent(req[r])
    /\ MemberOf(req[r].user, req[r].cid)

\* C1: N concurrent Solve calls with the correct flag by team members against the
\* same challenge, each of which found it unsolved, end with exactly one challenge
\* update and exactly N ledger rows, one per call.
C1_OneTransitionNRows ==
    \A c \in ChallengeIds :
        LET S == {r \in Reqs : /\ req[r].op = "Solve" /\ req[r].via = "service"
                               /\ req[r].pc # "idle"
                               /\ req[r].cid = c /\ RightEvent(req[r])
                               /\ MemberOf(req[r].user, c) /\ Correct(req[r])
                               /\ ReadUnsolved(req[r])}
        IN (/\ Cardinality(S) >= 2
            /\ \A r \in S : req[r].pc = "done" /\ ~req[r].fault)
           => /\ Cardinality({r \in S : req[r].upd = 1}) = 1
              /\ \A r \in S : Cardinality(req[r].rows) = 1

\* C2: the first Solve with the stored flag F turns solved from false to true; a
\* Solve with F started once the challenge is solved is rejected with the
\* already-solved error, writes no row and does not update the challenge.
C2_SolveOnceThenRejected ==
    \A r \in Reqs :
        (MemberSolve(r) /\ Correct(req[r]) /\ ~req[r].fault) =>
            /\ ReadUnsolved(req[r]) =>
                 /\ req[r].outcome.kind = "return" /\ req[r].outcome.solved
                 /\ req[r].upd = 1
                 /\ challenge[req[r].cid].solved
            /\ req[r].solvedAtStart =>
                 /\ req[r].outcome = Throw(AlreadySolved)
                 /\ req[r].upd = 0
                 /\ req[r].rows = {}

C2_Witness ==
    \E r \in Reqs :
        /\ MemberSolve(r) /\ Correct(req[r]) /\ req[r].solvedAtStart
        /\ req[r].outcome = Throw(AlreadySolved)
        /\ challenge[req[r].cid].solved

\* C3: a Solve by a team member with a flag different from the stored one, on a
\* challenge it reads unsolved, does not update the challenge and adds exactly one
\* row: isSuccess = false, the submitted value, the submitting user, the challenge.
C3_IncorrectSubmission ==
    \A r \in Reqs :
        (MemberSolve(r) /\ ~Correct(req[r]) /\ ReadUnsolved(req[r]) /\ ~req[r].fault) =>
            /\ req[r].upd = 0
            /\ (\A p \in Reqs : req[p].cid = req[r].cid => req[p].upd = 0)
                  => /\ ~challenge[req[r].cid].solved
                     /\ challenge[req[r].cid].solvedAt = Null
            /\ Cardinality(req[r].rows) = 1
            /\ \A a \in req[r].rows :
                  /\ a \in DOMAIN flagAttempt
                  /\ ~flagAttempt[a].isSuccess
                  /\ flagAttempt[a].flagValue = req[r].flag
                  /\ flagAttempt[a].userId = req[r].user
                  /\ flagAttempt[a].challengeId = req[r].cid

C3_Witness ==
    \E r \in Reqs :
        /\ MemberSolve(r) /\ ~Correct(req[r]) /\ ReadUnsolved(req[r]) /\ ~req[r].fault
        /\ req[r].cid = "c1"
        /\ Cardinality(req[r].rows) = 1
        /\ ~challenge["c1"].solved

\* C4: a Solve by a team member with the stored flag, on a challenge it reads
\* unsolved, adds exactly one row with isSuccess = true, leaves the challenge
\* solved, and solvedAt is not earlier than the time the request started.
C4_CorrectSubmission ==
    \A r \in Reqs :
        (MemberSolve(r) /\ Correct(req[r]) /\ ReadUnsolved(req[r]) /\ ~req[r].fault) =>
            /\ Cardinality(req[r].rows) = 1
            /\ \A a \in req[r].rows :
                  /\ a \in DOMAIN flagAttempt
                  /\ flagAttempt[a].isSuccess
                  /\ flagAttempt[a].challengeId = req[r].cid
            /\ challenge[req[r].cid].solved
            /\ challenge[req[r].cid].solvedAt # Null
            /\ Val(challenge[req[r].cid].solvedAt) >= req[r].startedAt

C4_Witness ==
    \E r \in Reqs :
        /\ MemberSolve(r) /\ Correct(req[r]) /\ ReadUnsolved(req[r]) /\ ~req[r].fault
        /\ req[r].startedAt > 1
        /\ challenge[req[r].cid].solved

\* the thing an HTTP request is addressed to exists when the request starts
TargetExists(q) ==
    IF q.op = "Solve" THEN RightEvent(q)
    ELSE IF q.op = "List" THEN Exists(q.cid)
    ELSE /\ q.aid \in DOMAIN flagAttempt
         /\ flagAttempt[q.aid].createdAt < q.startedAt

TargetChallenge(q) ==
    IF q.op \in {"Solve", "List"} THEN q.cid ELSE flagAttempt[q.aid].challengeId

\* C5: a user who is not a member of the challenge's team gets HTTP 403 from each
\* of Solve, ListAttempts, GetAttempt and Annotate, whatever flag is submitted.
C5_NonMemberForbidden ==
    \A r \in Reqs :
        (/\ req[r].pc = "done" /\ req[r].via = "http"
         /\ req[r].op \in {"Solve", "List", "Get", "Annotate"}
         /\ TargetExists(req[r])
         /\ ~MemberOf(req[r].user, TargetChallenge(req[r])))
        => req[r].status = Some(403)

\* C6: createFlagAttempt is gated itself: NotFound for a missing challenge,
\* Unauthorized for a non-member, no row either way; no row of the ledger was
\* submitted by a non-member, and a Solve by a non-member writes nothing.
C6_RecordAttemptGated ==
    /\ \A r \in Reqs :
         (req[r].pc = "done" /\ req[r].op = "Record") =>
            /\ ~Exists(req[r].cid) =>
                  /\ req[r].outcome.msg = ChNotFound
                  /\ revision = "throwing" => req[r].outcome.kind = "throw"
                  /\ revision = "envelope" => req[r].outcome.code = "NOT_FOUND"
                  /\ req[r].rows = {}
            /\ (Exists(req[r].cid) /\ ~MemberOf(req[r].user, req[r].cid)) =>
                  /\ req[r].outcome.msg = SubmitForbidden
                  /\ revision = "throwing" => req[r].outcome.kind = "throw"
                  /\ revision = "envelope" => req[r].outcome.code = "UNAUTHORIZED"
                  /\ req[r].rows = {}
    /\ \A a \in DOMAIN flagAttempt :
         MemberOf(flagAttempt[a].userId, flagAttempt[a].challengeId)
    /\ \A r \in Reqs :
         (req[r].op = "Solve" /\ ~MemberOf(req[r].user, req[r].cid)) =>
            req[r].rows = {} /\ req[r].upd = 0

C6_Witness ==
    /\ \E r \in Reqs :
         /\ req[r].pc = "done" /\ req[r].op = "Record"
         /\ Exists(req[r].cid) /\ ~MemberOf(req[r].user, req[r].cid)
         /\ req[r].outcome.msg = SubmitForbidden
    /\ \E r \in Reqs :
         /\ req[r].pc = "done" /\ req[r].op = "Record"
         /\ ~Exists(req[r].cid)
         /\ req[r].outcome.msg = ChNotFound

\* a finished service call of solveChallenge naming an event other than the
\* challenge's own
CrossEventSolve(r) ==
    /\ req[r].pc = "done" /\ req[r].op = "Solve" /\ req[r].via = "service"
    /\ Exists(req[r].cid)
    /\ challenge[req[r].cid].eventId # req[r].eid

\* C7: Solve with an eventId other than the challenge's own fails with NotFound,
\* which the solve handler answers with 404, and writes no row and no update.
C7_CrossEventNotFound ==
    \A r \in Reqs :
        CrossEventSolve(r) =>
            /\ req[r].outcome.kind = "throw"
            /\ SolveHandlerStatus(req[r].outcome) = 404
            /\ req[r].rows = {}
            /\ req[r].upd = 0

\* C8: the solve handler answers every precondition failure of solveChallenge with
\* its own status: not-found failures 404, non-membership 403, already-solved 409.
C8_PreconditionStatuses ==
    \A r \in Reqs :
        (/\ req[r].pc = "done" /\ req[r].op = "Solve" /\ req[r].via = "service"
         /\ req[r].outcome.kind = "throw" /\ ~req[r].fault) =>
            LET st == SolveHandlerStatus(req[r].outcome) IN
            /\ (~EventExists(req[r].eid) \/ ~RightEvent(req[r])) => st = 404
            /\ (RightEvent(req[r]) /\ ~MemberOf(req[r].user, req[r].cid)) => st = 403
            /\ (RightEvent(req[r]) /\ MemberOf(req[r].user, req[r].cid)
                  /\ ReadSolved(req[r])) => st = 409

C10_AppendOnly ==
    [][/\ Len(flagAttempt') >= Len(flagAttempt)
       /\ \A a \in DOMAIN flagAttempt :
             /\ flagAttempt'[a].flagValue = flagAttempt[a].flagValue
             /\ flagAttempt'[a].isSuccess = flagAttempt[a].isSuccess
             /\ flagAttempt'[a].userId = flagAttempt[a].userId
             /\ flagAttempt'[a].challengeId = flagAttempt[a].challengeId
             /\ flagAttempt'[a].createdAt = flagAttempt[a].createdAt]_vars

C10_Witness ==
    \E r \in Reqs :
        /\ req[r].pc = "done" /\ req[r].op = "Annotate" /\ req[r].upd = 1
        /\ flagAttempt[req[r].aid].comment = req[r].comment
        /\ ~flagAttempt[req[r].aid].isSuccess

\* the step in which request r's flagAttempt.update is applied
Annotates(r) ==
    /\ req[r].op = "Annotate"
    /\ req[r].pc = "a_update"
    /\ req'[r].pc = "done"
    /\ req'[r].upd = req[r].upd + 1

\* C11: Annotate overwrites: whatever comment the row carried, after an Annotate by
\* a team member the row's comment is the submitted one alone; annotating a row
\* with the comment it already carries leaves the row as it was; flagValue and
\* isSuccess (and every other row) are as before the call.
C11_AnnotateOverwrites ==
    [][\A r \in Reqs :
          Annotates(r) =>
             LET a == req[r].aid IN
             /\ flagAttempt'[a].comment = req[r].comment
             /\ flagAttempt[a].comment = req[r].comment => flagAttempt'[a] = flagAttempt[a]
             /\ flagAttempt'[a].flagValue = flagAttempt[a].flagValue
             /\ flagAttempt'[a].isSuccess = flagAttempt[a].isSuccess
             /\ \A b \in DOMAIN flagAttempt : b # a => flagAttempt'[b] = flagAttempt[b]]_vars

\* two Annotates of one row with different comments have both been applied
C11_Witness ==
    \E p, q \in Reqs :
        /\ req[p].pc = "done" /\ req[p].op = "Annotate" /\ req[p].upd = 1
        /\ req[q].pc = "done" /\ req[q].op = "Annotate" /\ req[q].upd = 1
        /\ req[p].aid = req[q].aid
        /\ req[p].comment = Some("k1") /\ req[q].comment = Some("k2")
        /\ MemberOf(req[p].user, flagAttempt[req[p].aid].challengeId)
        /\ MemberOf(req[q].user, flagAttempt[req[q].aid].challengeId)
        /\ flagAttempt[req[p].aid].comment = Some("k2")
        /\ flagAttempt[req[p].aid].flagValue = "f2"

\* the ledger insert made for request q was rejected by the store
InsertFailed(q) == q.fault /\ q.cfa.msg = PrismaError

\* C12: when the ledger insert inside Solve fails, Solve ends in an error, does not
\* update the challenge and does not report solved = true.
C12_InsertFailureSurfaces ==
    \A r \in Reqs :
        (/\ req[r].op = "Solve" /\ req[r].via = "service"
         /\ InsertFailed(req[r])
         /\ req[r].pc \in {"s_update", "done"}) =>
            /\ req[r].pc = "done"
            /\ req[r].outcome.kind = "throw"
            /\ ~req[r].outcome.solved
            /\ req[r].upd = 0

\* the path of request q names a challenge other than the attempt's, or an event
\* other than that challenge's
PathMismatch(q) ==
    /\ q.aid \in DOMAIN flagAttempt
    /\ \/ flagAttempt[q.aid].challengeId # q.cid
       \/ ~RightEvent(q)

\* C13: a request by a member of the attempt's team, addressed by a path whose
\* challenge is not the attempt's or whose event is not the challenge's, is
\* answered 404 by GetAttempt, and is not answered 200 by Annotate, which leaves
\* the row as it was (the 400 that validation gives every comment request counts
\* as a rejection here).
C13_PathGuard ==
    \A r \in Reqs :
        (/\ req[r].pc = "done" /\ req[r].via = "http"
         /\ PathMismatch(req[r])
         /\ MemberOf(req[r].user, flagAttempt[req[r].aid].challengeId)) =>
            /\ req[r].op = "Get" => req[r].status = Some(404)
            /\ req[r].op = "Annotate" => req[r].status # Some(200) /\ req[r].upd = 0

\* a call of solveChallenge that returned a result to its caller
SolveReturned(r) ==
    /\ req[r].pc = "done" /\ req[r].op = "Solve" /\ req[r].via = "service"
    /\ req[r].outcome.kind = "return"
    /\ ~req[r].fault

\* the worth of challenge c: its points, a challenge without points being worth 0
PointsOf(c) == IF challenge[c].points = Null THEN 0 ELSE challenge[c].points[1]

\* C14 as stated: Solve returns solved = true with the challenge's points when the
\* submission matches, and solved = false with points 0 when it does not.
C14_PointsOrZero ==
    \A r \in Reqs :
        SolveReturned(r) =>
            /\ Correct(req[r]) =>
                  req[r].outcome.solved /\ req[r].outcome.points = Some(PointsOf(req[r].cid))
            /\ ~Correct(req[r]) =>
                  ~req[r].outcome.solved /\ req[r].outcome.points = Some(0)

\* C14 as amended: on a match the result is solved = true with the challenge's
\* points (0 for a challenge without points); on a mismatch the result is
\* solved = false and carries no points at all.
C14_PointsOnMatchOnly ==
    \A r \in Reqs :
        SolveReturned(r) =>
            /\ Correct(req[r]) =>
                  /\ req[r].outcome.solved
                  /\ req[r].outcome.points = Some(PointsOf(req[r].cid))
            /\ ~Correct(req[r]) =>
                  ~req[r].outcome.solved /\ req[r].outcome.points = Null

\* a mismatch returned without points, then a match returned with the 100 points
\* of the challenge
C14_Witness ==
    \E p, q \in Reqs :
        /\ SolveReturned(p) /\ ~Correct(req[p])
        /\ ~req[p].outcome.solved /\ req[p].outcome.points = Null
        /\ SolveReturned(q) /\ Correct(req[q])
        /\ challenge[req[q].cid].points = Some(100)
        /\ req[q].outcome.solved /\ req[q].outcome.points = Some(100)

\* a finished ListAttempts by a member of the challenge's team
MemberList(r) ==
    /\ req[r].pc = "done" /\ req[r].op = "List"
    /\ MemberOf(req[r].user, req[r].cid)
    /\ ~req[r].fault

\* C15: ListAttempts by a team member returns exactly the ledger rows of the
\* challenge, each once, none of another challenge, in order of decreasing
\* creation time.
C15_ListExactNewestFirst ==
    \A r \in Reqs :
        MemberList(r) =>
            /\ req[r].data # Null
            /\ LET s == req[r].data[1] IN
               /\ {s[i] : i \in DOMAIN s} =
                     {a \in DOMAIN flagAttempt : flagAttempt[a].challengeId = req[r].cid}
               /\ \A i, j \in DOMAIN s : i # j => s[i] # s[j]
               /\ \A i, j \in DOMAIN s :
                     i < j => flagAttempt[s[i]].createdAt >= flagAttempt[s[j]].createdAt
            /\ req[r].via = "http" => req[r].status = Some(200)

\* the two attempts on c1 listed, the later one first, the attempt on c2 left out
C15_Witness ==
    \E r \in Reqs :
        /\ MemberList(r) /\ req[r].cid = "c1"
        /\ req[r].data = Some(<<3, 1>>)
        /\ flagAttempt[3].createdAt > flagAttempt[1].createdAt
        /\ flagAttempt[2].challengeId = "c2"

\* C16: a team member's POST to /events/{eventId}/challenges/{challengeId}/solve
\* with a non-empty flag passes validation and reaches solveChallenge; with the
\* stored flag on an unsolved challenge it is answered 200 with solved = true.
C16_SolveRouteValidates ==
    \A r \in Reqs :
        (/\ req[r].pc = "done" /\ req[r].op = "Solve" /\ req[r].via = "http"
         /\ RightEvent(req[r])
         /\ MemberOf(req[r].user, req[r].cid)
         /\ ~req[r].fault) =>
            /\ req[r].outcome.kind # "pending"
            /\ (Correct(req[r]) /\ ~req[r].solvedAtStart) =>
                  /\ req[r].status = Some(200)
                  /\ req[r].outcome.solved
                  /\ req[r].outcome.points # Null

\* C17: a team member's POST to .../flagAttempts/{attemptId}/comment with a
\* non-empty comment for an existing attempt passes validation, reaches
\* addCommentToFlagAttempt and is answered 200 with the attempt carrying the
\* submitted comment.
C17_CommentRouteValidates ==
    \A r \in Reqs :
        (/\ req[r].pc = "done" /\ req[r].op = "Annotate" /\ req[r].via = "http"
         /\ req[r].aid \in DOMAIN flagAttempt
         /\ MemberOf(req[r].user, flagAttempt[req[r].aid].challengeId)
         /\ ~req[r].fault) =>
            /\ req[r].outcome.kind # "pending"
            /\ req[r].status = Some(200)
            /\ req[r].data # Null
            /\ req[r].data[1].comment = req[r].comment

\* the requester wrote the note that request q read, or holds an ADMIN or OWNER
\* row in the team of the note's challenge
NotePermitted(q) ==
    \/ Val(q.found).userId = q.user
    \/ \E i \in DOMAIN teamMember :
          /\ teamMember[i].userId = q.user
          /\ teamMember[i].teamId = challenge[Val(q.found).challengeId].teamId
          /\ teamMember[i].role \in {"ADMIN", "OWNER"}

\* C18: updateNoteById and deleteNoteById succeed exactly when the requester is
\* the note's author or an ADMIN or OWNER of the team of the note's challenge;
\* every other requester is refused as not authorised and writes nothing.
C18_NoteAuthorOrModerator ==
    \A r \in Reqs :
        (/\ req[r].pc = "done" /\ req[r].op \in {"UpdateNote", "DeleteNote"}
         /\ req[r].found # Null
         /\ ~req[r].fault) =>
            /\ NotePermitted(req[r]) =>
                  req[r].outcome.kind = "return" /\ req[r].upd = 1
            /\ ~NotePermitted(req[r]) =>
                  /\ req[r].outcome.kind = "throw"
                  /\ req[r].outcome.msg \in {NoteUpdateForbidden, NoteDeleteForbidden}
                  /\ req[r].upd = 0

MemberCreate(r) ==
    /\ req[r].pc = "done" /\ req[r].op = "CreateChallenge"
    /\ req[r].eid \in event
    /\ <<req[r].eid, req[r].tid>> \in eventTeam
    /\ \E i \in DOMAIN teamMember :
          teamMember[i].userId = req[r].user /\ teamMember[i].teamId = req[r].tid

C21_EveryTeamHasOwnerRow ==
    \A i \in DOMAIN team :
        \E j \in DOMAIN teamMember :
            /\ teamMember[j].userId = team[i].ownerId
            /\ teamMember[j].teamId = team[i].id
            /\ teamMember[j].role = "OWNER"

\* a finished assignUserToChallenge of a member of the challenge's team by a member
\* of that team
MemberAssign(r) ==
    /\ req[r].pc = "done" /\ req[r].op = "Assign"
    /\ Exists(req[r].cid)
    /\ req[r].target \in Users
    /\ MemberOf(req[r].target, req[r].cid)
    /\ MemberOf(req[r].user, req[r].cid)

\* a finished createChallenge for a team entered in the event by a user who is
\* not a member of the team
OutsiderCreate(r) ==
    /\ req[r].pc = "done" /\ req[r].op = "CreateChallenge"
    /\ req[r].eid \in event
    /\ <<req[r].eid, req[r].tid>> \in eventTeam
    /\ \A i \in DOMAIN teamMember :
          ~(teamMember[i].userId = req[r].user /\ teamMember[i].teamId = req[r].tid)

\* C22: the handlers of the event-scoped create and assign endpoints answer a
\* duplicate challenge name and an already-assigned user as a conflict (400 or
\* 409), a creator outside the team as 403, never as 500, and nothing is inserted.
C22_PreconditionClasses ==
    \A r \in Reqs :
        /\ (MemberCreate(r) /\ req[r].wasThere) =>
              /\ CreateHandlerStatus(req[r].outcome) \in {400, 409}
              /\ req[r].upd = 0 /\ req[r].rows = {}
        /\ OutsiderCreate(r) =>
              /\ CreateHandlerStatus(req[r].outcome) = 403
              /\ req[r].upd = 0 /\ req[r].rows = {}
        /\ (MemberAssign(r) /\ req[r].wasThere) =>
              /\ AssignHandlerStatus(req[r].outcome) \in {400, 409}
              /\ req[r].rows = {}

\* C23: every response of the solve and flag-attempt endpoints, the 401 for
\* missing or invalid credentials and the 400 of request validation included,
\* carries the envelope fields success, message and meta.timestamp.
C23_UniformEnvelope ==
    \A r \in Reqs :
        (req[r].pc = "done" /\ req[r].via = "http" /\ req[r].op \in Routes) =>
            {"success", "message", "meta.timestamp"} \subseteq BodyOf(req[r])

\* the stored flag of the challenge request q names is non-null and is the
\* submitted string
ExactMatch(q) ==
    /\ q.cid \in DOMAIN challenge
    /\ challenge[q.cid].flag # Null
    /\ challenge[q.cid].flag[1] = q.flag

\* C24: in the event-scoped solveChallenge the isSuccess recorded and the solved
\* returned are true exactly when the stored flag is non-null and equal to the
\* submitted string; a challenge whose stored flag is null never becomes solved
\* and every submission against it is recorded with isSuccess = false.
C24_ExactFlagComparison ==
    /\ \A r \in Reqs :
          req[r].op = "Solve" =>
             /\ \A a \in req[r].rows : flagAttempt[a].isSuccess = ExactMatch(req[r])
             /\ (req[r].pc = "done" /\ req[r].outcome.kind = "return" /\ ~req[r].fault) =>
                   req[r].outcome.solved = ExactMatch(req[r])
    /\ \A c \in DOMAIN challenge : challenge[c].flag = Null => ~challenge[c].solved

\* a submission against c2, which has no stored flag, recorded as a failure, and
\* the stored flag of c1 submitted and recorded as a success
C24_Witness ==
    \E p, q \in Reqs :
        /\ req[p].op = "Solve" /\ req[p].pc = "done" /\ req[p].cid = "c2"
        /\ challenge["c2"].flag = Null
        /\ \E a \in req[p].rows : ~flagAttempt[a].isSuccess
        /\ ~req[p].outcome.solved /\ ~challenge["c2"].solved
        /\ req[q].op = "Solve" /\ req[q].pc = "done" /\ req[q].cid = "c1"
        /\ ExactMatch(req[q])
        /\ \E a \in req[q].rows : flagAttempt[a].isSuccess
        /\ req[q].outcome.solved

\* request r is a solveChallenge call whose ledger insert is done and whose
\* challenge update is not: still to come, or rejected
BetweenWrites(r) ==
    /\ req[r].op = "Solve"
    /\ req[r].rows # {}
    /\ req[r].upd = 0
    /\ req[r].pc = "s_update" \/ (req[r].pc = "done" /\ req[r].fault)

\* C25: the ledger insert and the challenge update of Solve are two writes: a call
\* between them (or stopped there, or whose update was rejected) has left a row
\* with isSuccess = true for its challenge, and the challenge is solved only if
\* another call updated it; so a successful row with an unsolved challenge is a
\* reachable state.
C25_SuccessRowBeforeSolved ==
    \A r \in Reqs :
        BetweenWrites(r) =>
            /\ \E a \in req[r].rows :
                  /\ flagAttempt[a].isSuccess
                  /\ flagAttempt[a].challengeId = req[r].cid
            /\ challenge[req[r].cid].solved =>
                  \E p \in Reqs \ {r} :
                      req[p].op = "Solve" /\ req[p].cid = req[r].cid /\ req[p].upd >= 1

\* a successful row on c1 while c1 is unsolved: the call that wrote it is between
\* its writes, and a concurrent ListAttempts has returned the row
C25_Witness ==
    \E r, p \in Reqs :
        /\ BetweenWrites(r) /\ req[r].pc = "s_update" /\ req[r].cid = "c1"
        /\ ~challenge["c1"].solved /\ challenge["c1"].solvedAt = Null
        /\ \E a \in req[r].rows :
              /\ flagAttempt[a].isSuccess /\ flagAttempt[a].challengeId = "c1"
              /\ req[p].op = "List" /\ req[p].pc = "done" /\ req[p].data = Some(<<a>>)

\* request p created the challenge that request r, a finished solveChallenge by a
\* team member, found and was given the flag r submits
CreatedThenSolved(p, r) ==
    /\ req[p].op = "CreateChallenge" /\ req[p].pc = "done" /\ req[p].upd = 1
    /\ req[r].op = "Solve" /\ req[r].pc = "done" /\ req[r].via = "service"
    /\ req[r].cid = req[p].cid
    /\ req[r].ch # Null
    /\ req[r].flag = req[p].flag
    /\ MemberOf(req[r].user, req[r].cid)
    /\ ~req[r].fault

\* C26: a challenge created through the event-scoped create endpoint with flag F
\* in the body is solved by a team member submitting F.
C26_CreatedFlagSolves ==
    \A p, r \in Reqs :
        CreatedThenSolved(p, r) =>
            /\ req[r].outcome.kind = "return"
            /\ req[r].outcome.solved
            /\ challenge[req[r].cid].solved

\* C27: in every reachable state a challenge with solved = true has a ledger row
\* with isSuccess = true, under every solve variant and when the ledger write
\* fails.
C27_SolvedHasSuccessRow ==
    \A c \in DOMAIN challenge :
        challenge[c].solved =>
            \E a \in DOMAIN flagAttempt :
                flagAttempt[a].challengeId = c /\ flagAttempt[a].isSuccess

\* C28: solved = true exactly when solvedAt is non-null, solved never returns to
\* false, and once solvedAt is set no later or concurrent Solve of either variant
\* changes it.
C28_SolvedOnce ==
    [][\A c \in DOMAIN challenge :
          /\ challenge[c].solved <=> challenge[c].solvedAt # Null
          /\ challenge'[c].solved <=> challenge'[c].solvedAt # Null
          /\ challenge[c].solved => challenge'[c].solved
          /\ challenge[c].solvedAt # Null =>
                challenge'[c].solvedAt = challenge[c].solvedAt]_vars

\* a finished call of one of the four operations by a user outside the team of
\* the challenge it addresses
NonMemberCall(q) ==
    /\ q.pc = "done"
    /\ q.op \in {"Solve", "List", "Get", "Annotate"}
    /\ TargetExists(q)
    /\ ~MemberOf(q.user, TargetChallenge(q))

RefusalMessage(q) ==
    IF q.op = "Solve" THEN SolveForbidden
    ELSE IF q.op = "List" THEN ListForbidden
    ELSE IF q.op = "Get" THEN GetForbidden
    ELSE AnnForbidden

\* the response worked out from the request's own inputs and the revision of the
\* ledger service, reading neither the challenge table nor the ledger
RefusalOf(q) ==
    IF q.via = "http" /\ ~Validates(q)
    THEN [outcome |-> IdleReq.outcome, status |-> Some(400)]
    ELSE [outcome |-> IF q.op = "Solve" \/ revision = "throwing"
                      THEN Throw(RefusalMessage(q))
                      ELSE Envelope(RefusalMessage(q), "UNAUTHORIZED"),
          status |-> IF q.via = "http" THEN Some(403) ELSE Null]

C30_SolveCompletes ==
    /\ \A r \in Reqs, c \in ChallengeIds :
          (/\ req[r].op = "Solve" /\ req[r].cid = c /\ req[r].pc = "s_update"
           /\ req[r].isSuccess /\ req[r].rows # {})
          ~> challenge[c].solved
    /\ \A r \in Reqs :
          (req[r].op = "Solve" /\ req[r].pc # "idle") ~> (req[r].pc = "done")

\* a Solve has returned solved after writing its row and the update
C30_Witness ==
    \E r \in Reqs :
        /\ req[r].op = "Solve" /\ req[r].pc = "done"
        /\ req[r].isSuccess /\ req[r].rows # {} /\ req[r].upd = 1
        /\ req[r].outcome.solved /\ challenge[req[r].cid].solved
====
